---- MODULE Spec2Model ----
(***************************************************************************)
(* Model of atqdm (src/src/atqdm/__init__.py): the APBar iterator wrapper  *)
(* with its throttled status output, and the tqdm() selection function.    *)
(*                                                                         *)
(* Time is counted in whole seconds; datetime.now() reads the variable     *)
(* `now`.  Standard output is modelled by `out`: the events written since  *)
(* the start of the most recent __next__ call.                             *)
(***************************************************************************)
EXTENDS Integers, Sequences, FiniteSets, TLC

VARIABLES
    env,          \* sys.modules as seen by tqdm(); Unprobed when tqdm() was not used
    iterable,     \* the object handed to APBar() / tqdm()
    impl,         \* what the caller holds: "none", "APBar", "tqdm_original"
    raised,       \* exception surfaced by the constructing call: "none", "TypeError"
    iter,         \* self.iter: number of elements already drawn from the source
    len,          \* self.len
    step,         \* self.step
    last,         \* self.last
    period,       \* self.period
    sensitivity,  \* self.sensitivity
    ptime,        \* self.ptime
    stime,        \* self.stime
    prefix,       \* self.prefix
    postfix,      \* self.postfix
    width,        \* self.width
    now,          \* the wall clock
    out,          \* stdout events since the start of the most recent __next__ call
    retKind,      \* outcome of the most recent __next__ call
    returned,     \* the elements __next__ has returned so far, in order
    throttled,    \* print times of the last two full lines that were printed on a call
                  \* other than the first one and the one with step = len
    postfixCall   \* the set_postfix call under study: its arguments and its outcome

vars == <<env, iterable, impl, raised, iter, len, step, last, period, sensitivity,
          ptime, stime, prefix, postfix, width, now, out, retKind, returned,
          throttled, postfixCall>>

fields == <<iter, len, step, last, period, sensitivity, ptime, stime, prefix,
            postfix, width>>

-----------------------------------------------------------------------------
(* Bounds of the model *)

\* longest wrapped sequence
MaxLen == 3
\* how many __next__ calls the consumer may still make once step has reached len
MaxExtraCalls == 2

\* most entries of the mapping, and of the named values, of a set_postfix call
MaxEntries == 2

\* widest bar of the specification of the bar
MaxBarWidth == 10

(* Program constants *)

DefaultPeriod == 10
DefaultSensitivity == 1
DefaultBarWidth == 10
USecPerSec == 1000000

(* Input domains *)

Items == {"a", "b"}
SeqsUpTo(n) == UNION {[1..k -> Items] : k \in 0..n}
Iterables == [sized : BOOLEAN, items : SeqsUpTo(MaxLen)]
Periods == {5, DefaultPeriod}
Sensitivities == {DefaultSensitivity, 50}
Widths == {4, DefaultBarWidth}
\* seconds that may pass between two operations
Advances == {0, 5, 10}
\* set_description(None) behaves as set_description("")
Descs == {"", "ep"}
DescStrs == {"ep: "}
Postfixes == {"x"}
WandbStates == {"absent", "no_run_attr", "run_none", "run_active"}
CometStates == {"absent", "no_experiment", "experiment", "raises"}
Envs == [wandb : WandbStates, comet : CometStates]
Unprobed == [wandb |-> "unprobed", comet |-> "unprobed"]
\* keys of postfix entries, and their order as Python strings
Keys == {"a", "b", "loss"}
KeyRank(k) == CASE k = "a" -> 1 [] k = "b" -> 2 [] k = "loss" -> 3
\* values of postfix entries: two strings, a Number and another object, each with
\* the characters of its str()
Values == { [kind |-> "str", chars |-> << "1" >>],
            [kind |-> "str", chars |-> << " ", "y", " " >>],
            [kind |-> "num", chars |-> << "0.123456" >>],
            [kind |-> "obj", chars |-> << "None" >>] }
Entries == [key : Keys, value : Values]
DistinctKeys(m) == \A i, j \in 1..Len(m) : m[i].key = m[j].key => i = j
Mappings == {m \in UNION {[1..k -> Entries] : k \in 0..MaxEntries} : DistinctKeys(m)}
\* ordered_dict=None is the empty mapping; kwargs are in the order of the call
PostfixCalls == [ordered_dict : Mappings, kwargs : Mappings, result : {"pending"}]
\* no set_postfix call is under study
NoCall == [ordered_dict |-> << >>, kwargs |-> << >>, result |-> "absent"]

-----------------------------------------------------------------------------
(* Output events *)

Marker == [kind |-> "marker"]
Newline == [kind |-> "newline"]
IsLine(e) == e.kind = "line"
HasLine(o) == \E i \in 1..Len(o) : IsLine(o[i])
Lines(o) == SelectSeq(o, IsLine)
IsMarker(e) == e.kind = "marker"
Markers(o) == SelectSeq(o, IsMarker)

-----------------------------------------------------------------------------
(* APBar.barchart *)

\* a cell that is full only beyond its right edge
CellStrict(st, i) ==
    IF st * width * 100 > (i + 1) * 100 * len THEN "full"
    ELSE IF st * width * 100 >= (i * 100 + 66) * len THEN "two"
    ELSE IF st * width * 100 >= (i * 100 + 33) * len THEN "third"
    ELSE "none"

\* one cell of the bar, for progress = st / len * width
Cell(st, i) ==
    IF st * width * 100 >= (i + 1) * 100 * len THEN "full"
    ELSE IF st * width * 100 >= (i * 100 + 66) * len THEN "two"
    ELSE IF st * width * 100 >= (i * 100 + 33) * len THEN "third"
    ELSE "none"

barchart(st) == [i \in 1..width |-> Cell(st, i - 1)]

(* APBar.pp *)

\* timedelta / int rounds to the nearest microsecond, ties to even
DivRoundHalfEven(a, b) ==
    LET q == a \div b
        r == a % b
    IN IF 2 * r > b \/ (2 * r = b /\ q % 2 = 1) THEN q + 1 ELSE q

\* estimate = timespent / step * len - timespent, in microseconds
Estimate(timespent, st) == DivRoundHalfEven(timespent, st) * len - timespent

\* an estimate shown without the test of line 130
TimeStringRaw(timespent, estimate) ==
    << timespent \div USecPerSec, estimate \div USecPerSec >>

\* the elapsed and estimated fields, shown in whole seconds
TimeString(timespent, estimate) ==
    << timespent \div USecPerSec,
       IF estimate < 0 THEN 0 ELSE estimate \div USecPerSec >>

pp(percentage, st, time) ==
    [kind |-> "line", percentage |-> percentage, step |-> st, len |-> len,
     bar |-> barchart(st), time |-> time, prefix |-> prefix, postfix |-> postfix]

-----------------------------------------------------------------------------
(* APBar.__init__ *)

\* len(iterable) raises TypeError for an object without __len__
HasLen(it) == it.sized

APBar(it, p, s, w) ==
    /\ impl = "none"
    /\ iterable' = it
    /\ IF HasLen(it)
       THEN /\ impl' = "APBar"
            /\ raised' = "none"
            /\ iter' = 0
            /\ len' = Len(it.items)
            /\ step' = 0
            /\ last' = -1
            /\ period' = p
            /\ sensitivity' = s
            /\ ptime' = now
            /\ stime' = now
            /\ prefix' = ""
            /\ postfix' = ""
            /\ width' = w
       ELSE /\ impl' = "none"
            /\ raised' = "TypeError"
            /\ UNCHANGED fields
    /\ UNCHANGED <<now, out, retKind, returned, throttled, postfixCall>>

Construct ==
    \E it \in Iterables, p \in Periods, s \in Sensitivities, w \in Widths :
        /\ raised = "none"
        /\ APBar(it, p, s, w)
        /\ env' = Unprobed

-----------------------------------------------------------------------------
(* tqdm *)

\* the condition of the if statement: "active", "inactive", or "error" when
\* evaluating it raises
Probe(e) ==
    IF e.wandb = "run_active" THEN "active"
    ELSE IF e.comet = "absent" THEN "inactive"
    ELSE IF e.comet = "raises" THEN "error"
    ELSE IF e.comet = "experiment" THEN "active"
    ELSE "inactive"

\* what the bare except clause catches: an error of the probe, or of APBar()
Caught(e, it) == Probe(e) = "error" \/ (Probe(e) = "active" /\ ~HasLen(it))

tqdm_original(it) ==
    /\ impl = "none"
    /\ iterable' = it
    /\ impl' = "tqdm_original"
    /\ raised' = "none"
    /\ UNCHANGED fields
    /\ UNCHANGED <<now, out, retKind, returned, throttled, postfixCall>>

tqdm(e, it) ==
    /\ raised = "none"
    /\ env' = e
    /\ IF Probe(e) = "active" /\ ~Caught(e, it)
       THEN APBar(it, DefaultPeriod, DefaultSensitivity, DefaultBarWidth)
       ELSE tqdm_original(it)

Select == \E e \in Envs, it \in Iterables : tqdm(e, it)

-----------------------------------------------------------------------------
(* APBar.__next__ *)

\* a counter that stops once it is past len
SteppedCapped == IF step > len THEN step ELSE step + 1

\* line 144: self.step += 1
Stepped == step + 1

\* a throttle that forgets the final step
IsCandidateNoFinal(delta_sec, st) == delta_sec >= period

\* a throttle that forgets the period
IsCandidateAnyTime(delta_sec, st) == delta_sec >= 0 \/ st = len

\* line 150: the call is a candidate update
IsCandidate(delta_sec, st) == delta_sec >= period \/ st = len

\* line 152: int(100 * step / len)
Progress(st) == (100 * st) \div len

\* a strict comparison against the threshold
ShouldPrintStrict(progress) == progress > last + sensitivity

\* line 156
ShouldPrint(progress) == progress >= last + sensitivity

\* end of sequence signalled one call early
ExhaustedEarly(st) == st >= len

\* line 165
Exhausted(st) == st > len

\* an element handed out twice
NextElementStale == iterable.items[IF iter = 0 THEN 1 ELSE iter]

\* line 168: next(self.iter)
NextElement == iterable.items[iter + 1]

\* a first line that shows the progress of the step
FirstLineProgress(st) == pp((100 * st) \div len, st, << >>)

\* line 149: the line of the first call
FirstLine(st) == pp(0, st, << >>)

LastTwo(q) == IF Len(q) > 2 THEN SubSeq(q, Len(q) - 1, Len(q)) ELSE q

\* an anchor moved by the calls that print a line only
ResetsAnchorOnLine(dec) == dec \in {"first", "line"}

\* line 151: self.ptime = ctime, on every candidate call
ResetsAnchor(dec) == dec \in {"line", "marker", "ZeroDivisionError"}

\* a first call that renders no bar
DividesByZeroLater(dec) == len = 0 /\ dec = "ZeroDivisionError"

\* lines 47 and 152: barchart divides by self.len, int(100 * step / len) does too
DividesByZero(dec) == len = 0 /\ dec \in {"first", "ZeroDivisionError"}

\* what a __next__ call at time ctime does before it returns or raises
Decision(ctime) ==
    LET st == Stepped
    IN IF last = -1 THEN "first"
       ELSE IF IsCandidate(ctime - ptime, st)
            THEN IF len = 0 THEN "ZeroDivisionError"
                 ELSE IF ShouldPrint(Progress(st)) THEN "line" ELSE "marker"
            ELSE "silent"

\* a wrapper that rewinds itself once it has signalled the end of the sequence
__next__restart(d) ==
    /\ impl = "APBar"
    /\ step < len + MaxExtraCalls
    /\ LET ctime == now + d
           st == Stepped
           dec == Decision(ctime)
           zde == DividesByZero(dec)
           timespent == (ctime - stime) * USecPerSec
           status == IF zde THEN << >>
                     ELSE IF dec = "first" THEN << FirstLine(st) >>
                     ELSE IF dec = "line"
                          THEN << pp(Progress(st), st,
                                     TimeString(timespent, Estimate(timespent, st))) >>
                     ELSE IF dec = "marker" THEN << Marker >>
                     ELSE << >>
           stop == ~zde /\ Exhausted(st)
       IN /\ now' = ctime
          /\ step' = IF stop THEN 0 ELSE st
          /\ last' = IF stop THEN -1
                     ELSE IF dec = "first" THEN 0
                     ELSE IF dec = "line" THEN Progress(st)
                     ELSE last
          /\ ptime' = IF ResetsAnchor(dec) THEN ctime ELSE ptime
          /\ throttled' = throttled
          /\ out' = status \o (IF stop THEN << Newline >> ELSE << >>)
          /\ IF zde
             THEN /\ retKind' = "ZeroDivisionError"
                  /\ UNCHANGED <<iter, returned>>
             ELSE IF stop \/ iter >= Len(iterable.items)
             THEN /\ retKind' = "StopIteration"
                  /\ iter' = 0
                  /\ UNCHANGED returned
             ELSE /\ retKind' = "element"
                  /\ iter' = iter + 1
                  /\ returned' = Append(returned, NextElement)
    /\ UNCHANGED <<env, iterable, impl, raised, len, period, sensitivity, stime,
                   prefix, postfix, width, postfixCall>>

__next__(d) ==
    /\ impl = "APBar"
    /\ step < len + MaxExtraCalls
    /\ LET ctime == now + d
           st == Stepped
           dec == Decision(ctime)
           zde == DividesByZero(dec)
           timespent == (ctime - stime) * USecPerSec
           status == IF zde THEN << >>
                     ELSE IF dec = "first" THEN << FirstLine(st) >>
                     ELSE IF dec = "line"
                          THEN << pp(Progress(st), st,
                                     TimeString(timespent, Estimate(timespent, st))) >>
                     ELSE IF dec = "marker" THEN << Marker >>
                     ELSE << >>
           stop == ~zde /\ Exhausted(st)
       IN /\ now' = ctime
          /\ step' = st
          /\ last' = IF dec = "first" THEN 0
                     ELSE IF dec = "line" THEN Progress(st)
                     ELSE last
          /\ ptime' = IF ResetsAnchor(dec) THEN ctime ELSE ptime
          /\ throttled' = IF dec = "line" /\ st # len
                          THEN LastTwo(Append(throttled, ctime))
                          ELSE throttled
          /\ out' = status \o (IF stop THEN << Newline >> ELSE << >>)
          /\ IF zde
             THEN /\ retKind' = "ZeroDivisionError"
                  /\ UNCHANGED <<iter, returned>>
             ELSE IF stop \/ iter >= Len(iterable.items)
             THEN /\ retKind' = "StopIteration"
                  /\ UNCHANGED <<iter, returned>>
             ELSE /\ retKind' = "element"
                  /\ iter' = iter + 1
                  /\ returned' = Append(returned, NextElement)
    /\ UNCHANGED <<env, iterable, impl, raised, len, period, sensitivity, stime,
                   prefix, postfix, width, postfixCall>>

Iterate == \E d \in Advances : __next__(d)

-----------------------------------------------------------------------------
(* The setters *)

\* a setter that refreshes the display, as the refresh argument suggests
set_description_refresh(desc) ==
    /\ impl = "APBar"
    /\ prefix' = IF desc # "" THEN desc \o ": " ELSE ""
    /\ out' = Append(out, Marker)
    /\ ptime' = now
    /\ UNCHANGED <<env, iterable, impl, raised, iter, len, step, last, period,
                   sensitivity, stime, postfix, width, now, retKind,
                   returned, throttled, postfixCall>>

set_description(desc) ==
    /\ impl = "APBar"
    /\ prefix' = IF desc # "" THEN desc \o ": " ELSE ""
    /\ UNCHANGED <<env, iterable, impl, raised, iter, len, step, last, period,
                   sensitivity, ptime, stime, postfix, width, now, out, retKind,
                   returned, throttled, postfixCall>>

set_description_str(desc) ==
    /\ impl = "APBar"
    /\ prefix' = desc
    /\ UNCHANGED <<env, iterable, impl, raised, iter, len, step, last, period,
                   sensitivity, ptime, stime, postfix, width, now, out, retKind,
                   returned, throttled, postfixCall>>

set_postfix_str(s) ==
    /\ impl = "APBar"
    /\ postfix' = "#" \o s
    /\ UNCHANGED <<env, iterable, impl, raised, iter, len, step, last, period,
                   sensitivity, ptime, stime, prefix, width, now, out, retKind,
                   returned, throttled, postfixCall>>

(* APBar.set_postfix *)

HasKey(m, k) == \E i \in 1..Len(m) : m[i].key = k

\* postfix[key] = value on an OrderedDict: in place for a key it holds, else at the end
SetItem(m, e) ==
    IF HasKey(m, e.key)
    THEN [i \in 1..Len(m) |-> IF m[i].key = e.key THEN e ELSE m[i]]
    ELSE Append(m, e)

RECURSIVE SetItems(_, _)
SetItems(m, es) == IF es = << >> THEN m ELSE SetItems(SetItem(m, Head(es)), Tail(es))

\* named values taken in the order of the call
unsorted_kwargs(kw) == kw

\* line 91: sorted(kwargs.keys())
sorted_kwargs(kw) == SortSeq(kw, LAMBDA x, y : KeyRank(x.key) < KeyRank(y.key))

\* lines 90-92
Merged(od, kw) == SetItems(od, sorted_kwargs(kw))

\* line 96: isinstance(value, Number)
IsNumber(v) == v.kind = "num"

\* str.strip()
RECURSIVE Strip(_)
Strip(q) ==
    IF q = << >> THEN q
    ELSE IF Head(q) = " " THEN Strip(Tail(q))
    ELSE IF q[Len(q)] = " " THEN Strip(SubSeq(q, 1, Len(q) - 1))
    ELSE q

RECURSIVE Text(_)
Text(q) == IF q = << >> THEN "" ELSE Head(q) \o Text(Tail(q))

\* lines 103-105
RECURSIVE Stitch(_)
Stitch(m) ==
    IF m = << >> THEN ""
    ELSE Head(m).key \o "=" \o Text(Strip(Head(m).value.chars))
         \o (IF Len(m) > 1 THEN ", " \o Stitch(Tail(m)) ELSE "")

\* APBar defines no format_num: line 97 raises AttributeError for the first
\* Number, before self.postfix is assigned
set_postfix(od, kw) ==
    /\ impl = "APBar"
    /\ LET m == Merged(od, kw)
       IN IF \E i \in 1..Len(m) : IsNumber(m[i].value)
          THEN /\ postfixCall' = [postfixCall EXCEPT !.result = "AttributeError"]
               /\ UNCHANGED postfix
          ELSE /\ postfixCall' = [postfixCall EXCEPT !.result = "returned"]
               /\ postfix' = Stitch(m)
    /\ UNCHANGED <<env, iterable, impl, raised, iter, len, step, last, period,
                   sensitivity, ptime, stime, prefix, width, now, out, retKind,
                   returned, throttled>>

SetPostfix ==
    /\ postfixCall.result = "pending"
    /\ set_postfix(postfixCall.ordered_dict, postfixCall.kwargs)

SetDescription == \E desc \in Descs : set_description(desc)
SetDescriptionStr == \E desc \in DescStrs : set_description_str(desc)
SetPostfixStr == \E s \in Postfixes : set_postfix_str(s)

-----------------------------------------------------------------------------
(* The system *)

Init ==
    /\ env = Unprobed
    /\ iterable = [sized |-> TRUE, items |-> << >>]
    /\ impl = "none"
    /\ raised = "none"
    /\ iter = 0
    /\ len = 0
    /\ step = 0
    /\ last = -1
    /\ period = DefaultPeriod
    /\ sensitivity = DefaultSensitivity
    /\ ptime = 0
    /\ stime = 0
    /\ prefix = ""
    /\ postfix = ""
    /\ width = DefaultBarWidth
    /\ now = 0
    /\ out = << >>
    /\ retKind = "none"
    /\ returned = << >>
    /\ throttled = << >>
    /\ postfixCall = NoCall

Next ==
    \/ Construct
    \/ Iterate
    \/ SetDescription
    \/ SetDescriptionStr
    \/ SetPostfixStr

Spec == Init /\ [][Next]_vars

\* the iterator requested through tqdm() or built directly, then iterated
NextSelect ==
    \/ Select
    \/ Construct
    \/ Iterate

SpecSelect == Init /\ [][NextSelect]_vars

\* iteration with bars of every width up to MaxBarWidth
ConstructBar ==
    \E it \in Iterables, w \in 1..MaxBarWidth :
        /\ raised = "none"
        /\ APBar(it, DefaultPeriod, DefaultSensitivity, w)
        /\ env' = Unprobed

NextBar ==
    \/ ConstructBar
    \/ Iterate

SpecBar == Init /\ [][NextBar]_vars

\* a set_postfix call on an APBar just built over a list of two elements
InitPostfix ==
    /\ env = Unprobed
    /\ iterable = [sized |-> TRUE, items |-> << "a", "b" >>]
    /\ impl = "APBar"
    /\ raised = "none"
    /\ iter = 0
    /\ len = 2
    /\ step = 0
    /\ last = -1
    /\ period = DefaultPeriod
    /\ sensitivity = DefaultSensitivity
    /\ ptime = 0
    /\ stime = 0
    /\ prefix = ""
    /\ postfix = ""
    /\ width = DefaultBarWidth
    /\ now = 0
    /\ out = << >>
    /\ retKind = "none"
    /\ returned = << >>
    /\ throttled = << >>
    /\ postfixCall \in PostfixCalls

NextPostfix == SetPostfix

SpecPostfix == InitPostfix /\ [][NextPostfix]_vars

-----------------------------------------------------------------------------
(* Properties of APBar.__next__ *)

Min(a, b) == IF a < b THEN a ELSE b

\* the source has at least one element and is wrapped by an APBar
Wrapped == impl = "APBar" /\ len >= 1

\* C1: over a sequence of length N >= 1 the k-th call returns the k-th element:
\* after `step` calls the elements returned are the first min(step, N) elements
\* of the sequence, in order, and once end of sequence is signalled they are
\* exactly the sequence.
C1_ElementsInOrder ==
    Wrapped =>
        /\ returned = SubSeq(iterable.items, 1, Min(step, len))
        /\ retKind = "element" => returned[step] = iterable.items[step]
        /\ retKind = "StopIteration" => returned = iterable.items

C1_Witness ==
    /\ Wrapped
    /\ retKind = "StopIteration"
    /\ len >= 3
    /\ iterable.items[1] # iterable.items[2]
    /\ returned = iterable.items
    /\ sensitivity # DefaultSensitivity
    /\ width # DefaultBarWidth

\* C2: the first call prints exactly one full line, showing 0% and no time
\* figures, and sets last to 0, whatever the configuration and the time passed
\* since construction; before it last is -1.
C2_FirstCallPrintsZero ==
    Wrapped =>
        /\ step = 0 => last = -1 /\ out = << >>
        /\ step = 1 =>
              /\ last = 0
              /\ Len(Lines(out)) = 1
              /\ Lines(out)[1].percentage = 0
              /\ Lines(out)[1].time = << >>
              /\ Markers(out) = << >>

C2_Witness ==
    /\ Wrapped
    /\ step = 1
    /\ len = 1
    /\ now - stime >= period
    /\ sensitivity # DefaultSensitivity
    /\ HasLine(out)
    /\ last = 0

\* C3: the call on which step = len always prints a full status line.
C3_FinalStepPrintsLine == (Wrapped /\ step = len) => HasLine(out)

\* C4: on a call after the first that is a candidate update (period elapsed since
\* ptime, or step = len), with percent = floor(100 * step / len): a full line is
\* printed and last becomes percent when percent >= last + sensitivity; otherwise
\* exactly one marker and no line is written and last is unchanged.
C4_CandidateLineOrMarker ==
    [][ ( /\ Wrapped
          /\ step' = step + 1
          /\ last # -1
          /\ (now' - ptime >= period \/ step' = len) )
        => LET percent == (100 * step') \div len
           IN IF percent >= last + sensitivity
              THEN /\ Len(Lines(out')) = 1
                   /\ Lines(out')[1].percentage = percent
                   /\ Markers(out') = << >>
                   /\ last' = percent
              ELSE /\ Len(Markers(out')) = 1
                   /\ ~HasLine(out')
                   /\ last' = last ]_vars

\* a marker written on a call other than the one with step = len, below the threshold
C4_Witness ==
    /\ Wrapped
    /\ step >= 2
    /\ step # len
    /\ Len(Markers(out)) = 1
    /\ ~HasLine(out)
    /\ (100 * step) \div len < last + sensitivity

\* C5: on a call after the first with less than period elapsed since ptime and
\* step # len, neither a line nor a marker is written, and last and ptime are
\* left unchanged.
C5_SilentWithinPeriod ==
    [][ ( /\ Wrapped
          /\ step' = step + 1
          /\ last # -1
          /\ now' - ptime < period
          /\ step' # len )
        => /\ ~HasLine(out')
           /\ Markers(out') = << >>
           /\ last' = last
           /\ ptime' = ptime ]_vars

\* a silent call made some seconds, but less than period, after the anchor
C5_Witness ==
    /\ Wrapped
    /\ step >= 2
    /\ step < len
    /\ out = << >>
    /\ retKind = "element"
    /\ now - ptime > 0
    /\ now - ptime < period

\* C6: two full lines that are neither the first call's nor the step = len one
\* are printed at least period apart.
C6_ThrottledLinesApart ==
    Wrapped =>
        /\ Len(throttled) <= 2
        /\ Len(throttled) = 2 => throttled[2] - throttled[1] >= period

C6_Witness ==
    /\ Wrapped
    /\ Len(throttled) = 2
    /\ throttled[2] = now
    /\ HasLine(out)

\* C7: the first N calls each return an element and the (N+1)-th signals end of
\* sequence as StopIteration, writes the terminal newline, returns no element
\* and does not advance the source.
C7_StopOnCallAfterLast ==
    Wrapped =>
        /\ (step >= 1 /\ step <= len) =>
              /\ retKind = "element"
              /\ Len(returned) = step
              /\ iter = step
        /\ step = len + 1 =>
              /\ retKind = "StopIteration"
              /\ out # << >>
              /\ out[Len(out)] = Newline
              /\ Len(returned) = len
              /\ iter = len

C7_Witness ==
    /\ Wrapped
    /\ step = len + 1
    /\ retKind = "StopIteration"
    /\ out = << Newline >>
    /\ iter = len

-----------------------------------------------------------------------------
(* Properties of tqdm *)

\* something has been requested from tqdm()
Selected == env # Unprobed /\ impl # "none"

\* wandb is loaded with a run that is not None, or comet_ml is loaded and
\* reports a running experiment, and looking this up raised nothing
FindsActiveSession(e) ==
    \/ e.wandb = "run_active"
    \/ e.wandb # "run_active" /\ e.comet = "experiment"

\* C8: tqdm() returns an APBar exactly when the probe completes without error
\* and finds an active session; otherwise it returns tqdm_original; no error is
\* surfaced.
C8_SelectsByProbe ==
    Selected =>
        /\ impl = "APBar" <=> FindsActiveSession(env)
        /\ impl # "APBar" => impl = "tqdm_original"
        /\ raised = "none"

\* C9: requesting an APBar over an input without a length fails with TypeError
\* before any element is consumed, surfaced to the caller, both for APBar()
\* and for tqdm() with an active session.
C9_UnsizedFails ==
    ( /\ ~HasLen(iterable)
      /\ (impl # "none" \/ raised # "none")
      /\ (env = Unprobed \/ FindsActiveSession(env)) )
    => /\ raised = "TypeError"
       /\ impl = "none"
       /\ iter = 0

-----------------------------------------------------------------------------
(* Properties of the setters *)

\* C10: a setter call writes nothing and changes no field but prefix or postfix,
\* so what every later call returns and whether it prints a line, a marker or
\* nothing is as without the call; a line carries the prefix and postfix that
\* are set when it is printed.
C10_SettersOnlyChangeText ==
    [][ /\ (prefix' # prefix \/ postfix' # postfix) =>
            /\ UNCHANGED <<iter, len, step, last, period, sensitivity, ptime, stime,
                           width, now, out, retKind, returned, iterable, impl>>
            /\ \A d \in Advances : Decision(now + d)' = Decision(now + d)
        /\ step' = step + 1 =>
            \A i \in 1..Len(out') :
                IsLine(out'[i]) => /\ out'[i].prefix = prefix
                                   /\ out'[i].postfix = postfix ]_vars

\* a line printed after both texts were set, at a step where the previous
\* line was printed before
C10_Witness ==
    /\ Wrapped
    /\ step >= 2
    /\ HasLine(out)
    /\ Lines(out)[1].prefix = "ep: "
    /\ Lines(out)[1].postfix = "#x"

-----------------------------------------------------------------------------
(* Properties of APBar.set_postfix *)

\* the set_postfix call under study has been made
Called == postfixCall.result \in {"returned", "AttributeError"}

\* the entries after the named values were stored over the mapping
CallEntries ==
    LET od == postfixCall.ordered_dict
        kw == postfixCall.kwargs
        Named(k) == CHOOSE j \in 1..Len(kw) : kw[j].key = k
        kept == [i \in 1..Len(od) |->
                    IF HasKey(kw, od[i].key) THEN kw[Named(od[i].key)] ELSE od[i]]
        IsNew(e) == ~HasKey(od, e.key)
    IN [kept |-> kept, new |-> SelectSeq(kw, IsNew)]

ByKey(x, y) == KeyRank(x.key) < KeyRank(y.key)

\* the text of a value: a Number with bounded precision, a string stripped
Rendered(v) ==
    IF v.kind = "num" THEN "0.1235" ELSE Text(Strip(v.chars))

RECURSIVE Joined(_)
Joined(m) ==
    IF m = << >> THEN ""
    ELSE Head(m).key \o "=" \o Rendered(Head(m).value)
         \o (IF Len(m) > 1 THEN ", " \o Joined(Tail(m)) ELSE "")

HasNumber(m) == \E i \in 1..Len(m) : m[i].value.kind = "num"
AllStrings(m) == \A i \in 1..Len(m) : m[i].value.kind = "str"

\* C11: set_postfix with an entry whose value is a number completes without
\* error and stores the entry with the number in bounded precision, as in
\* loss=0.1235 for loss = 0.123456.
C11_NumberFormatted ==
    (Called /\ HasNumber(CallEntries.kept \o CallEntries.new)) =>
        /\ postfixCall.result = "returned"
        /\ postfix = Joined(CallEntries.kept \o CallEntries.new)

-----------------------------------------------------------------------------
(* Properties of the time figures *)

\* C13: in every full line printed with time figures the estimate shown is not
\* negative, and it is zero whenever elapsed / step * len - elapsed is negative,
\* elapsed being now - stime; this holds at every step, the ones up to len + 1
\* included.
C13_EstimateNotNegative ==
    Wrapped =>
        \A i \in 1..Len(out) :
            (IsLine(out[i]) /\ out[i].time # << >>) =>
                LET elapsed == (now - stime) * USecPerSec
                IN /\ out[i].time[2] >= 0
                   /\ elapsed * len < elapsed * out[i].step => out[i].time[2] = 0
                   /\ Estimate(elapsed, out[i].step) < 0 => out[i].time[2] = 0

\* a line printed on the call after the last element, some seconds after the start
C13_Witness ==
    /\ Wrapped
    /\ HasLine(out)
    /\ Lines(out)[1].step = len + 1
    /\ Lines(out)[1].time # << >>
    /\ Lines(out)[1].time[1] > 0
    /\ Lines(out)[1].time[2] = 0

-----------------------------------------------------------------------------
(* Properties of APBar.barchart *)

\* bar b is the rendering of progress st / len * width the claim describes
BarAsClaimed(b, st) ==
    LET progress == st * width * 100      \* in hundredths of a cell, times len
        AtLeast(i, hundredths) == progress >= (i * 100 + hundredths) * len
    IN /\ Len(b) = width
       /\ \A i \in 0..(width - 1) :
            /\ b[i + 1] = "full" <=> AtLeast(i, 100)
            /\ b[i + 1] = "two" <=> (AtLeast(i, 66) /\ ~AtLeast(i, 100))
            /\ b[i + 1] = "third" <=> (AtLeast(i, 33) /\ ~AtLeast(i, 66))
            /\ b[i + 1] = "none" <=> ~AtLeast(i, 33)
       /\ \A i, j \in 1..width : (i < j /\ b[j] = "full") => b[i] = "full"
       /\ Cardinality({i \in 1..width : b[i] \in {"two", "third"}}) <= 1
       /\ (2 * st = len /\ width = 10) =>
            b = [i \in 1..10 |-> IF i <= 5 THEN "full" ELSE "none"]

Percentages == { out[i].percentage : i \in { j \in 1..Len(out) : IsLine(out[j]) } }

\* C15: the last printed percentage stays between -1 and 100, and every
\* status line shows a percentage between 0 and 100.
C15_PercentInRange ==
    Wrapped => /\ last \in (-1)..100
               /\ Percentages \subseteq 0..100

\* C16 as stated: while the bar exists its counter is between 0 and
\* len + 1.
C16_StepAtMostLenPlusOne ==
    Wrapped => step \in 0..(len + 1)

\* C16: the counter is never negative and never decreases; a call that
\* returns an element, and every call made at a later clock reading, raises
\* it by exactly one; it is at most len + 1 until a call has signalled the
\* end of the sequence, and only calls made after that signal take it past
\* len + 1.
C16_StepCountsEveryCall ==
    [][ Wrapped =>
          /\ step' >= step /\ step >= 0
          /\ (step' # step => step' = step + 1)
          /\ (returned' # returned => step' = step + 1)
          /\ (now' # now => step' = step + 1)
          /\ (retKind # "StopIteration" => step' <= len + 1)
          /\ (step' > len + 1 => retKind = "StopIteration" /\ retKind' = "StopIteration")
      ]_vars

\* a second call after the end of the sequence has taken the counter to
\* len + 2
C16_Witness ==
    Wrapped /\ step = len + 2 /\ retKind = "StopIteration" /\ now > 0

\* C17 as stated: a call that prints a status line, the first included,
\* sets ptime to the current time, a call that prints only the marker or
\* nothing leaves it alone, and stime never changes.
C17_AnchorMovesOnLinesOnly ==
    [][ Wrapped /\ step' = step + 1 =>
          /\ (HasLine(out') => ptime' = now')
          /\ (~HasLine(out') => ptime' = ptime)
          /\ stime' = stime
      ]_vars

\* C17: ptime is set to the current time by every call after the first
\* that finds the period elapsed or the step equal to len, whether it goes
\* on to print a status line or only the marker; the first call, the
\* silent calls and the setters leave it alone; stime never changes after
\* construction.
C17_AnchorMovesOnCandidates ==
    [][ Wrapped =>
          /\ stime' = stime
          /\ (step' = step => ptime' = ptime)
          /\ (step' = step + 1 =>
                IF last # -1 /\ (now' - ptime >= period \/ step' = len)
                THEN ptime' = now'
                ELSE ptime' = ptime)
      ]_vars

\* the call of the final step printed only the marker and moved ptime
C17_Witness ==
    /\ Wrapped /\ step = len
    /\ Markers(out) # << >> /\ ~HasLine(out)
    /\ ptime = now /\ now > 0


\* C18: a bar over an empty sequence is constructed, and its first call
\* raises ZeroDivisionError: it writes nothing, returns no element and
\* leaves the source where it was.
C18_EmptyFailsOnFirstCall ==
    impl = "APBar" /\ len = 0 /\ step = 1 =>
        /\ retKind = "ZeroDivisionError"
        /\ iter = 0 /\ returned = << >>
        /\ out = << >>

\* the first call on a bar over an empty sequence has failed
C18_Witness ==
    /\ impl = "APBar" /\ raised = "none" /\ len = 0 /\ iterable.items = << >>
    /\ step = 1 /\ retKind = "ZeroDivisionError"


\* C19: once a call on a bar over a non-empty sequence has raised
\* StopIteration, every later call raises it again, returns no element and
\* leaves the source where it is; the source is advanced at most len times.
C19_StickyTermination ==
    [][ /\ Wrapped /\ retKind = "StopIteration" =>
              /\ retKind' = "StopIteration"
              /\ iter' = iter
              /\ returned' = returned
        /\ Wrapped' => iter' <= len' /\ Len(returned') <= len'
      ]_vars

\* every extra call after the end of the sequence has been made, and the
\* source stands where the last element left it
C19_Witness ==
    /\ Wrapped /\ retKind = "StopIteration"
    /\ step = len + MaxExtraCalls
    /\ iter = len /\ Len(returned) = len


\* C20: with sensitivity 1 and len >= 2 the call that takes step to len
\* prints one status line showing 100% and sets last to 100, and last is at
\* most 99 in every state before that call; last never decreases, and each
\* status line after the first raises it by at least the sensitivity.
C20_FinalLineShowsHundred ==
    [][ Wrapped =>
          /\ sensitivity = DefaultSensitivity /\ len >= 2 =>
                /\ step < len => last <= 99
                /\ step' = step + 1 /\ step' = len =>
                      /\ Percentages' = {100}
                      /\ Len(Lines(out')) = 1
                      /\ last' = 100
          /\ last' >= last
          /\ step' = step + 1 /\ HasLine(out') /\ last # -1 =>
                last' >= last + sensitivity
      ]_vars

\* the final step of a bar with sensitivity 1 over two or more elements
\* has printed its 100% line
C20_Witness ==
    /\ Wrapped /\ sensitivity = DefaultSensitivity /\ len >= 2
    /\ step = len /\ last = 100
    /\ Percentages = {100}
    /\ retKind = "element"

====
